---- MODULE Spec2Model ----
(***************************************************************************)
(* Room occupancy and booking ledger of the hostel management backend.     *)
(*                                                                         *)
(* The store is MongoDB accessed through Mongoose.  Every request handler  *)
(* is a process that moves from one store operation (await) to the next;   *)
(* the code between two awaits runs without interleaving (one Node.js      *)
(* event loop), so each action below is one store operation together with  *)
(* the synchronous code around it.                                         *)
(*                                                                         *)
(* Store semantics the handlers rely on:                                   *)
(*  - document.save() sends a $set of the paths the handler modified (the  *)
(*    in-memory value differs from the loaded one), after the schema's     *)
(*    pre("save") hooks; it does not compare versions;                     *)
(*  - operations carrying a session run in a multi-document transaction:   *)
(*    reads come from the snapshot taken at the transaction's first        *)
(*    operation, writes stay private until commitTransaction, and a write  *)
(*    to a document that was written after the snapshot, or that another   *)
(*    open transaction has written, fails with a WriteConflict error;      *)
(*  - a write outside a transaction to a document an open transaction has  *)
(*    written waits until that transaction ends.                           *)
(***************************************************************************)
EXTENDS Integers, FiniteSets, Sequences, TLC

\* ------------------------------------------------------------------ bounds
MaxCap == 2
MaxCalls == 2
Today == 2

MaxReviews == 4

\* --------------------------------------------------------- program constants
maxDuration == 12
DaysPerMonth == 30

Procs == {"p1", "p2"}
UnknownRoom == "r0"
RoomIds == {"r1", "r2", UnknownRoom}
Students == {"s1", "s2"}
UnknownStudent == "s0"
BookingIds == 1..(MaxCalls + 1)

Null == [null |-> TRUE]
Missing == ""
NoDate == 0

BookingStatuses == {"confirmed", "checked-in", "checked-out", "cancelled"}
ActiveStatuses == {"confirmed", "checked-in"}
RoomStatuses == {"available", "occupied", "maintenance"}

ReviewIds == 1..MaxReviews
ReviewStatuses == {"pending", "approved", "rejected"}
Stars == 1..5

\* a review that was deleted (its id is never used again)
Removed == [removed |-> TRUE]

VARIABLES rooms, bookings, studentRoom, nextId, pc, req, loc, last, conflict,
          calls, rooms0, bookings0, reviews, ratings

vars == <<rooms, bookings, studentRoom, nextId, pc, req, loc, last, conflict,
          calls, rooms0, bookings0, reviews, ratings>>

\* ----------------------------------------------------------------- helpers
Max(a, b) == IF a >= b THEN a ELSE b

CeilDiv(a, b) == (a + b - 1) \div b

Abs(a) == IF a < 0 THEN 0 - a ELSE a

NoLoc == [room |-> Null, booking |-> Null]

NoReq == [op |-> "none"]

\* students.js calculateDuration: months = ceil(|end - start| / 30 days)
calculateDuration(checkInDate, checkOutDate) ==
  CeilDiv(Abs(checkOutDate - checkInDate), DaysPerMonth)

\* students.js validateBookingRequest: every required field is truthy
validateBookingRequest(student, room, checkInDate, checkOutDate) ==
  /\ student # Missing
  /\ room # Missing
  /\ checkInDate # NoDate
  /\ checkOutDate # NoDate

validateBookingDates_NoPast(checkInDate, checkOutDate) ==
  /\ ~(checkOutDate <= checkInDate)
  /\ ~(calculateDuration(checkInDate, checkOutDate) > maxDuration)

\* students.js validateBookingDates
validateBookingDates(checkInDate, checkOutDate) ==
  /\ ~(checkInDate < Today)
  /\ ~(checkOutDate <= checkInDate)
  /\ ~(calculateDuration(checkInDate, checkOutDate) > maxDuration)

checkRoomAvailability_NoStatus(room) ==
  IF room = Null THEN "NotFound"
  ELSE IF room.currentOccupancy >= room.capacity THEN "Capacity"
  ELSE "ok"

\* students.js checkRoomAvailability: the error it throws, or "ok"
checkRoomAvailability(room) ==
  IF room = Null THEN "NotFound"
  ELSE IF room.status # "available" THEN "Unavailable"
  ELSE IF room.currentOccupancy >= room.capacity THEN "Capacity"
  ELSE "ok"

\* the existingBooking query of createBooking
HasActiveBooking(bs, student) ==
  \E b \in BookingIds :
    /\ bs[b] # Null
    /\ bs[b].student = student
    /\ bs[b].status \in ActiveStatuses

\* Room schema pre("save") hook: "Prevent over-occupancy"
PreSaveOK(doc) == ~(doc.currentOccupancy > doc.capacity)

ReserveDoc_KeepStatus(doc) ==
  [doc EXCEPT !.currentOccupancy = doc.currentOccupancy + 1]

\* the increment every reserving path applies to its in-memory Room
ReserveDoc(doc) ==
  LET occ == doc.currentOccupancy + 1
  IN  [doc EXCEPT !.currentOccupancy = occ,
                  !.status = IF occ = doc.capacity THEN "occupied" ELSE @]

\* Mongoose save(): the paths whose in-memory value differs from the loaded one
Modified(orig, doc) ==
  {f \in {"capacity", "currentOccupancy", "status"} : doc[f] # orig[f]}

\* Mongoose save(): $set of the modified paths on the stored document
SaveRoom(stored, orig, doc) ==
  IF Modified(orig, doc) = {} THEN stored
  ELSE [f \in {"capacity", "currentOccupancy", "status"} |->
          IF f \in Modified(orig, doc) THEN doc[f] ELSE stored[f]]

\* Mongoose save(): the update matches no stored document (the document was
\* deleted after it was loaded) and save() throws DocumentNotFoundError
SaveFindsNone(stored, orig, doc) ==
  stored = Null /\ Modified(orig, doc) # {}

\* an open transaction of another request has written room r
LockedByOther(p, r) ==
  \E q \in Procs \ {p} : pc[q] = "cb_commit" /\ req[q].room = r

\* save() of a document with modified paths sends a write, which waits while
\* an open transaction of another request has written the document
MayWrite(p, r, orig, doc) ==
  (PreSaveOK(doc) /\ Modified(orig, doc) # {}) => ~LockedByOther(p, r)

\* a committed write to room r invalidates every transaction that took its
\* snapshot before the write and has not written the room yet
MarkConflict(p, r, wrote) ==
  [q \in Procs |->
     IF q # p /\ wrote /\ pc[q] = "cb_write" /\ req[q].room = r
     THEN TRUE ELSE conflict[q]]

NoLast == [req |-> NoReq, kind |-> "none"]

\* the handler sends its response: request r of caller p ends with `kind'
Finish(p, r, kind) ==
  /\ pc' = [pc EXCEPT ![p] = "idle"]
  /\ req' = [req EXCEPT ![p] = NoReq]
  /\ loc' = [loc EXCEPT ![p] = NoLoc]
  /\ last' = [req |-> r, kind |-> kind]

\* the handler goes on to its next store operation
Continue(p, r, label, l) ==
  /\ pc' = [pc EXCEPT ![p] = label]
  /\ req' = [req EXCEPT ![p] = r]
  /\ loc' = [loc EXCEPT ![p] = l]
  /\ UNCHANGED last

\* ------------------------------------------------------ review rating rollup
\* Ratings are whole stars; an average is held in tenths of a star (40 is 4.0).
IsReview(x) == x # Null /\ x # Removed

\* the $match stage of getRoomRatingSummary: room = roomId, status = approved
MatchApproved(rs, roomId) ==
  {i \in ReviewIds :
     IsReview(rs[i]) /\ rs[i].room = roomId /\ rs[i].status = "approved"}

RECURSIVE SumRatings(_, _)
\* the sum of $rating over the group ($avg is this sum over $sum: 1)
SumRatings(rs, S) ==
  IF S = {} THEN 0
  ELSE LET i == CHOOSE j \in S : TRUE
       IN  rs[i].rating + SumRatings(rs, S \ {i})

RECURSIVE Distribution(_, _)
\* distribution = {1:0,...,5:0}; forEach rating of the $push: distribution[rating]++
Distribution(rs, S) ==
  IF S = {} THEN [k \in Stars |-> 0]
  ELSE LET i == CHOOSE j \in S : TRUE
       IN  [Distribution(rs, S \ {i}) EXCEPT ![rs[i].rating] = @ + 1]

RoundTenths_Truncate(sum, count) == (10 * sum) \div count

\* Math.round((sum / count) * 10) / 10, in tenths: floor(10*sum/count + 1/2)
RoundTenths(sum, count) == ((20 * sum) + count) \div (2 * count)

ZeroSummary ==
  [averageRating |-> 0, totalReviews |-> 0,
   ratingDistribution |-> [k \in Stars |-> 0]]

\* the $group stage over the matched reviews S and the object built from it
\* (categoryAverages is left out: no property here reads it)
GroupSummary(rs, S) ==
  IF S # {}
  THEN [averageRating |-> RoundTenths(SumRatings(rs, S), Cardinality(S)),
        totalReviews |-> Cardinality(S),
        ratingDistribution |-> Distribution(rs, S)]
  ELSE ZeroSummary

\* Review.getRoomRatingSummary(roomId) on the committed reviews rs
getRoomRatingSummary(rs, roomId) == GroupSummary(rs, MatchApproved(rs, roomId))

\* the rating fields of a new Room: rating 0, totalReviews 0, ratingSummary {}
NoRating == [rating |-> 0, totalReviews |-> 0, ratingSummary |-> Null]

\* the $set of the post("save") hook of Review
RoomRating(summary) ==
  [rating |-> summary.averageRating, totalReviews |-> summary.totalReviews,
   ratingSummary |-> summary]

\* ------------------------------------------------------------------- Init
\* The database as the requests find it: room r1 as an admin created it (any
\* capacity, occupancy within the capacity, available or under maintenance,
\* or occupied when full), room r2 new and empty, no room under the id r0,
\* and possibly one booking of student s1 in room r1 (an active booking
\* occupies a slot of its room).
InitRooms ==
  {[capacity |-> c, currentOccupancy |-> o, status |-> s] :
     c \in 1..MaxCap, o \in 0..MaxCap, s \in RoomStatuses}

InitBooking(st) ==
  [student |-> "s1", room |-> "r1", duration |-> 1, status |-> st]

Init ==
  /\ rooms \in [RoomIds -> InitRooms \cup {Null}]
  /\ rooms["r1"] # Null
  /\ rooms["r1"].currentOccupancy <= rooms["r1"].capacity
  /\ \/ rooms["r1"].status \in {"available", "maintenance"}
     \/ rooms["r1"].currentOccupancy = rooms["r1"].capacity
  /\ rooms["r2"] = [capacity |-> 1, currentOccupancy |-> 0, status |-> "available"]
  /\ rooms[UnknownRoom] = Null
  /\ rooms0 = rooms
  /\ \/ bookings = [b \in BookingIds |-> Null] /\ nextId = 1
     \/ /\ \E st \in {"confirmed", "checked-out"} :
             /\ st \in ActiveStatuses => rooms["r1"].currentOccupancy >= 1
             /\ bookings = [b \in BookingIds |->
                              IF b = 1 THEN InitBooking(st) ELSE Null]
        /\ nextId = 2
  /\ bookings0 = bookings
  /\ studentRoom = [s \in Students |-> Missing]
  /\ pc = [p \in Procs |-> "idle"]
  /\ req = [p \in Procs |-> NoReq]
  /\ loc = [p \in Procs |-> NoLoc]
  /\ last = NoLast
  /\ conflict = [p \in Procs |-> FALSE]
  /\ calls = 0
  /\ reviews = [i \in ReviewIds |-> Null]
  /\ ratings = [r \in RoomIds |-> NoRating]

\* ------------------------------------------------- createBooking (POST /)
ValidDates == <<Today, Today + DaysPerMonth>>

CreateRequests ==
  {[op |-> "createBooking", student |-> s, room |-> r,
    checkInDate |-> ValidDates[1], checkOutDate |-> ValidDates[2],
    status |-> Missing] :
      s \in Students \cup {UnknownStudent}, r \in RoomIds \ {UnknownRoom}}
  \cup
  {[op |-> "createBooking", student |-> "s1", room |-> r,
    checkInDate |-> ValidDates[1], checkOutDate |-> ValidDates[2],
    status |-> Missing] : r \in {UnknownRoom}}
  \cup
  {[op |-> "createBooking", student |-> "s1", room |-> "r1",
    checkInDate |-> d[1], checkOutDate |-> d[2], status |-> Missing] :
      d \in {<<Today - 1, Today + DaysPerMonth>>, <<Today, Today>>,
             <<Today, Today + (maxDuration * DaysPerMonth) + 1>>,
             <<NoDate, Today + DaysPerMonth>>}}
  \cup
  {[op |-> "createBooking", student |-> s, room |-> r,
    checkInDate |-> ValidDates[1], checkOutDate |-> ValidDates[2],
    status |-> Missing] : s \in {Missing}, r \in {"r1"}}
  \cup
  {[op |-> "createBooking", student |-> "s1", room |-> "r1",
    checkInDate |-> ValidDates[1], checkOutDate |-> ValidDates[2],
    status |-> st] : st \in {"checked-out", "bogus"}}

\* startTransaction, validation, and the reads of the transaction (student,
\* room, active booking), all served from the snapshot of the first read
CreateBookingBegin(p, r) ==
  /\ pc[p] = "idle"
  /\ calls < MaxCalls
  /\ r \in CreateRequests
  /\ calls' = calls + 1
  /\ conflict' = [conflict EXCEPT ![p] = FALSE]
  /\ UNCHANGED <<rooms, bookings, studentRoom, nextId, rooms0, bookings0, reviews, ratings>>
  /\ IF ~validateBookingRequest(r.student, r.room, r.checkInDate, r.checkOutDate)
        \/ ~validateBookingDates(r.checkInDate, r.checkOutDate)
     THEN Finish(p, r, "ValidationError")
     ELSE IF r.student \notin Students
     THEN Finish(p, r, "NotFound")
     ELSE IF checkRoomAvailability(rooms[r.room]) # "ok"
     THEN Finish(p, r, checkRoomAvailability(rooms[r.room]))
     ELSE IF HasActiveBooking(bookings, r.student)
     THEN Finish(p, r, "Conflict")
     ELSE Continue(p, r, "cb_write", [room |-> rooms[r.room], booking |-> Null])

\* Booking.create([bookingData], {session}) with the schema's defaults
NewBooking(r) ==
  [student |-> r.student, room |-> r.room,
   duration |-> calculateDuration(r.checkInDate, r.checkOutDate),
   status |-> IF r.status = Missing THEN "confirmed" ELSE r.status]

\* Booking.create and roomExists.save inside the transaction
CreateBookingWrite(p) ==
  /\ pc[p] = "cb_write"
  /\ UNCHANGED <<rooms, bookings, studentRoom, nextId, conflict, calls, rooms0, bookings0, reviews, ratings>>
  /\ LET doc == ReserveDoc(loc[p].room)
     IN  IF NewBooking(req[p]).status \notin BookingStatuses
         THEN Finish(p, req[p], "ValidationError")
         ELSE IF ~PreSaveOK(doc)
         THEN Finish(p, req[p], "InvariantViolation")
         ELSE IF conflict[p] \/ LockedByOther(p, req[p].room)
         THEN Finish(p, req[p], "WriteConflict")
         ELSE Continue(p, req[p], "cb_commit",
                       [room |-> doc, booking |-> NewBooking(req[p])])

CommitTransaction_BookingOnly(p) ==
  /\ bookings' = [bookings EXCEPT ![nextId] = loc[p].booking]
  /\ rooms' = rooms
  /\ nextId' = nextId + 1

\* session.commitTransaction(): the buffered writes become visible together
CommitTransaction(p) ==
  /\ bookings' = [bookings EXCEPT ![nextId] = loc[p].booking]
  /\ rooms' = [rooms EXCEPT ![req[p].room] = loc[p].room]
  /\ nextId' = nextId + 1

CreateBookingCommit(p) ==
  /\ pc[p] = "cb_commit"
  /\ CommitTransaction(p)
  /\ conflict' = MarkConflict(p, req[p].room, TRUE)
  /\ Finish(p, req[p], "ok")
  /\ UNCHANGED <<studentRoom, calls, rooms0, bookings0, reviews, ratings>>

\* ------------------------------------------- updateBooking (PUT /:id)
UpdateRequests ==
  {[op |-> "updateBooking", id |-> b, status |-> st] :
     b \in BookingIds, st \in BookingStatuses}
  \cup {[op |-> "updateBooking", id |-> 1, status |-> "bogus"]}

\* Booking.findByIdAndUpdate(id, req.body, {runValidators: true}): the body
\* (here a status) is applied as it is, after the schema's enum validator
ApplyUpdate(booking, body) == [booking EXCEPT !.status = body.status]

UpdateBooking(p, r) ==
  /\ pc[p] = "idle"
  /\ calls < MaxCalls
  /\ r \in UpdateRequests
  /\ r.id <= nextId   \* a booking created so far, or an id of no booking
  /\ calls' = calls + 1
  /\ UNCHANGED <<rooms, studentRoom, nextId, conflict, rooms0, bookings0, reviews, ratings>>
  /\ IF r.status \notin BookingStatuses
     THEN Finish(p, r, "ValidationError") /\ UNCHANGED bookings
     ELSE IF bookings[r.id] = Null
     THEN Finish(p, r, "NotFound") /\ UNCHANGED bookings
     ELSE /\ bookings' = [bookings EXCEPT ![r.id] = ApplyUpdate(@, r)]
          /\ Finish(p, r, "ok")

\* ---------------------------------------- deleteBooking (DELETE /:id)
DeleteRequests == {[op |-> "deleteBooking", id |-> b] : b \in BookingIds}

ReleaseOccupancy(occ) == Max(0, occ - 1)

ReleaseDoc_KeepStatus(doc) ==
  [doc EXCEPT !.currentOccupancy = ReleaseOccupancy(doc.currentOccupancy)]

\* the release deleteBooking applies to its in-memory Room
ReleaseDoc(doc) ==
  LET occ == ReleaseOccupancy(doc.currentOccupancy)
  IN  [doc EXCEPT !.currentOccupancy = occ,
                  !.status = IF occ < doc.capacity THEN "available" ELSE @]

\* Booking.findById
DeleteBookingFind(p, r) ==
  /\ pc[p] = "idle"
  /\ calls < MaxCalls
  /\ r \in DeleteRequests
  /\ r.id <= nextId   \* a booking created so far, or an id of no booking
  /\ calls' = calls + 1
  /\ UNCHANGED <<rooms, bookings, studentRoom, nextId, conflict, rooms0, bookings0, reviews, ratings>>
  /\ IF bookings[r.id] = Null
     THEN Finish(p, r, "NotFound")
     ELSE Continue(p, r,
                   IF bookings[r.id].status \in ActiveStatuses
                   THEN "db_room" ELSE "db_remove",
                   [room |-> Null, booking |-> bookings[r.id]])

\* Room.findById(booking.room)
DeleteBookingRoom(p) ==
  /\ pc[p] = "db_room"
  /\ Continue(p, req[p],
              IF rooms[loc[p].booking.room] = Null THEN "db_remove" ELSE "db_save",
              [loc[p] EXCEPT !.room = rooms[loc[p].booking.room]])
  /\ UNCHANGED <<rooms, bookings, studentRoom, nextId, conflict, calls, rooms0, bookings0, reviews, ratings>>

\* the release and room.save()
DeleteBookingSave(p) ==
  /\ pc[p] = "db_save"
  /\ LET r == loc[p].booking.room
         doc == ReleaseDoc(loc[p].room)
     IN  /\ MayWrite(p, r, loc[p].room, doc)
         /\ IF ~PreSaveOK(doc)
            THEN /\ Finish(p, req[p], "InvariantViolation")
                 /\ UNCHANGED <<rooms, conflict>>
            ELSE IF SaveFindsNone(rooms[r], loc[p].room, doc)
            THEN /\ Finish(p, req[p], "DocumentNotFound")
                 /\ UNCHANGED <<rooms, conflict>>
            ELSE /\ rooms' = [rooms EXCEPT ![r] = SaveRoom(@, loc[p].room, doc)]
                 /\ conflict' = MarkConflict(p, r, Modified(loc[p].room, doc) # {})
                 /\ Continue(p, req[p], "db_remove", loc[p])
  /\ UNCHANGED <<bookings, studentRoom, nextId, calls, rooms0, bookings0, reviews, ratings>>

\* Booking.findByIdAndDelete
DeleteBookingRemove(p) ==
  /\ pc[p] = "db_remove"
  /\ bookings' = [bookings EXCEPT ![req[p].id] = Null]
  /\ Finish(p, req[p], "ok")
  /\ UNCHANGED <<rooms, studentRoom, nextId, conflict, calls, rooms0, bookings0, reviews, ratings>>

\* ------------------------------- adjustOccupancy (PATCH /:id/occupancy)
AdjustRequests ==
  {[op |-> "adjustOccupancy", room |-> r, action |-> a] :
     r \in RoomIds \ {UnknownRoom}, a \in {"increase", "decrease", "reset"}}
  \cup {[op |-> "adjustOccupancy", room |-> UnknownRoom, action |-> "increase"]}

AdjustError_NoFloor(room, action) ==
  IF action = "increase"
  THEN IF room.currentOccupancy >= room.capacity THEN "Capacity" ELSE "ok"
  ELSE IF action = "decrease" THEN "ok"
  ELSE "ValidationError"

AdjustError_NoCapacity(room, action) ==
  IF action = "increase" THEN "ok"
  ELSE IF action = "decrease"
  THEN IF room.currentOccupancy <= 0 THEN "InvalidState" ELSE "ok"
  ELSE "ValidationError"

\* the early return of the handler, or "ok"
AdjustError(room, action) ==
  IF action = "increase"
  THEN IF room.currentOccupancy >= room.capacity THEN "Capacity" ELSE "ok"
  ELSE IF action = "decrease"
  THEN IF room.currentOccupancy <= 0 THEN "InvalidState" ELSE "ok"
  ELSE "ValidationError"

DecreaseDoc_KeepStatus(doc) ==
  [doc EXCEPT !.currentOccupancy = doc.currentOccupancy - 1]

\* the decrease branch of the handler
DecreaseDoc(doc) ==
  LET occ == doc.currentOccupancy - 1
  IN  [doc EXCEPT !.currentOccupancy = occ,
                  !.status = IF occ < doc.capacity THEN "available" ELSE @]

AdjustDoc(room, action) ==
  IF action = "increase" THEN ReserveDoc(room) ELSE DecreaseDoc(room)

\* Room.findById and the checks on the loaded document
AdjustFind(p, r) ==
  /\ pc[p] = "idle"
  /\ calls < MaxCalls
  /\ r \in AdjustRequests
  /\ calls' = calls + 1
  /\ UNCHANGED <<rooms, bookings, studentRoom, nextId, conflict, rooms0, bookings0, reviews, ratings>>
  /\ IF rooms[r.room] = Null
     THEN Finish(p, r, "NotFound")
     ELSE IF AdjustError(rooms[r.room], r.action) # "ok"
     THEN Finish(p, r, AdjustError(rooms[r.room], r.action))
     ELSE Continue(p, r, "ao_save", [room |-> rooms[r.room], booking |-> Null])

\* room.save()
AdjustSave(p) ==
  /\ pc[p] = "ao_save"
  /\ LET r == req[p].room
         doc == AdjustDoc(loc[p].room, req[p].action)
     IN  /\ MayWrite(p, r, loc[p].room, doc)
         /\ IF ~PreSaveOK(doc)
            THEN /\ Finish(p, req[p], "InvariantViolation")
                 /\ UNCHANGED <<rooms, conflict>>
            ELSE IF SaveFindsNone(rooms[r], loc[p].room, doc)
            THEN /\ Finish(p, req[p], "DocumentNotFound")
                 /\ UNCHANGED <<rooms, conflict>>
            ELSE /\ rooms' = [rooms EXCEPT ![r] = SaveRoom(@, loc[p].room, doc)]
                 /\ conflict' = MarkConflict(p, r, Modified(loc[p].room, doc) # {})
                 /\ Finish(p, req[p], "ok")
  /\ UNCHANGED <<bookings, studentRoom, nextId, calls, rooms0, bookings0, reviews, ratings>>

\* ------------------------------------------- Student.assignRoom(roomId)
AssignRequests ==
  {[op |-> "assignRoom", student |-> s, room |-> r] :
     s \in {"s1"}, r \in RoomIds}

\* the error assignRoom throws after Room.findById, or "ok"
AssignError(room) ==
  IF room = Null THEN "NotFound"
  ELSE IF room.currentOccupancy >= room.capacity THEN "Capacity"
  ELSE "ok"

AssignFind(p, r) ==
  /\ pc[p] = "idle"
  /\ calls < MaxCalls
  /\ r \in AssignRequests
  /\ calls' = calls + 1
  /\ UNCHANGED <<rooms, bookings, studentRoom, nextId, conflict, rooms0, bookings0, reviews, ratings>>
  /\ IF AssignError(rooms[r.room]) # "ok"
     THEN Finish(p, r, AssignError(rooms[r.room]))
     ELSE Continue(p, r, "ar_student", [room |-> rooms[r.room], booking |-> Null])

\* this.room = roomId; this.save()
AssignSaveStudent(p) ==
  /\ pc[p] = "ar_student"
  /\ studentRoom' = [studentRoom EXCEPT ![req[p].student] = req[p].room]
  /\ Continue(p, req[p], "ar_room", loc[p])
  /\ UNCHANGED <<rooms, bookings, nextId, conflict, calls, rooms0, bookings0, reviews, ratings>>

\* the increment and room.save()
AssignSaveRoom(p) ==
  /\ pc[p] = "ar_room"
  /\ LET r == req[p].room
         doc == ReserveDoc(loc[p].room)
     IN  /\ MayWrite(p, r, loc[p].room, doc)
         /\ IF ~PreSaveOK(doc)
            THEN /\ Finish(p, req[p], "InvariantViolation")
                 /\ UNCHANGED <<rooms, conflict>>
            ELSE IF SaveFindsNone(rooms[r], loc[p].room, doc)
            THEN /\ Finish(p, req[p], "DocumentNotFound")
                 /\ UNCHANGED <<rooms, conflict>>
            ELSE /\ rooms' = [rooms EXCEPT ![r] = SaveRoom(@, loc[p].room, doc)]
                 /\ conflict' = MarkConflict(p, r, Modified(loc[p].room, doc) # {})
                 /\ Finish(p, req[p], "ok")
  /\ UNCHANGED <<bookings, studentRoom, nextId, calls, rooms0, bookings0, reviews, ratings>>

\* ------------------------------------------------ updateRoom (PUT /:id)
\* the request body names the paths to set; nothing in the handler or the
\* schema relates currentOccupancy to capacity on this path
UpdateRoomBodies ==
  {[currentOccupancy |-> MaxCap + 1], [currentOccupancy |-> 0],
   [capacity |-> 1], [status |-> "maintenance"], [status |-> "bogus"]}

UpdateRoomRequests ==
  {[op |-> "updateRoom", room |-> r, body |-> b] :
     r \in {"r1"}, b \in UpdateRoomBodies}
  \cup {[op |-> "updateRoom", room |-> UnknownRoom, body |-> [capacity |-> 1]]}

\* runValidators: the update validators of the paths in the body (the enum
\* of status; the numbers have none)
UpdateRoomValid(body) ==
  "status" \in DOMAIN body => body.status \in RoomStatuses

\* findByIdAndUpdate: $set of the paths of the body
ApplyBody(doc, body) ==
  [f \in DOMAIN doc |-> IF f \in DOMAIN body THEN body[f] ELSE doc[f]]

\* Room.findByIdAndUpdate(id, req.body, {new: true, runValidators: true})
UpdateRoom(p, r) ==
  /\ pc[p] = "idle"
  /\ calls < MaxCalls
  /\ r \in UpdateRoomRequests
  /\ (UpdateRoomValid(r.body) /\ rooms[r.room] # Null) =>
       ~LockedByOther(p, r.room)
  /\ calls' = calls + 1
  /\ UNCHANGED <<bookings, studentRoom, nextId, rooms0, bookings0, reviews, ratings>>
  /\ IF ~UpdateRoomValid(r.body)
     THEN Finish(p, r, "ValidationError") /\ UNCHANGED <<rooms, conflict>>
     ELSE IF rooms[r.room] = Null
     THEN Finish(p, r, "NotFound") /\ UNCHANGED <<rooms, conflict>>
     ELSE /\ rooms' = [rooms EXCEPT ![r.room] = ApplyBody(@, r.body)]
          /\ conflict' = MarkConflict(p, r.room, TRUE)
          /\ Finish(p, r, "ok")

\* ---------------------------------------------- deleteRoom (DELETE /:id)
DeleteRoomRequests == {[op |-> "deleteRoom", room |-> r] : r \in RoomIds}

\* Room.findById and the check of the loaded document
DeleteRoomFind(p, r) ==
  /\ pc[p] = "idle"
  /\ calls < MaxCalls
  /\ r \in DeleteRoomRequests
  /\ calls' = calls + 1
  /\ UNCHANGED <<rooms, bookings, studentRoom, nextId, conflict, rooms0, bookings0, reviews, ratings>>
  /\ IF rooms[r.room] = Null
     THEN Finish(p, r, "NotFound")
     ELSE IF rooms[r.room].currentOccupancy > 0
     THEN Finish(p, r, "Occupied")
     ELSE Continue(p, r, "dr_remove", [room |-> rooms[r.room], booking |-> Null])

\* Room.findByIdAndDelete
DeleteRoomRemove(p) ==
  /\ pc[p] = "dr_remove"
  /\ rooms[req[p].room] # Null => ~LockedByOther(p, req[p].room)
  /\ rooms' = [rooms EXCEPT ![req[p].room] = Null]
  /\ conflict' = MarkConflict(p, req[p].room, rooms[req[p].room] # Null)
  /\ Finish(p, req[p], "ok")
  /\ UNCHANGED <<bookings, studentRoom, nextId, calls, rooms0, bookings0, reviews, ratings>>

\* ------------------------------------------------------------ specification
Next ==
  \/ \E p \in Procs, r \in CreateRequests : CreateBookingBegin(p, r)
  \/ \E p \in Procs : CreateBookingWrite(p)
  \/ \E p \in Procs : CreateBookingCommit(p)
  \/ \E p \in Procs, r \in UpdateRequests : UpdateBooking(p, r)
  \/ \E p \in Procs, r \in DeleteRequests : DeleteBookingFind(p, r)
  \/ \E p \in Procs : DeleteBookingRoom(p)
  \/ \E p \in Procs : DeleteBookingSave(p)
  \/ \E p \in Procs : DeleteBookingRemove(p)
  \/ \E p \in Procs, r \in AdjustRequests : AdjustFind(p, r)
  \/ \E p \in Procs : AdjustSave(p)
  \/ \E p \in Procs, r \in AssignRequests : AssignFind(p, r)
  \/ \E p \in Procs : AssignSaveStudent(p)
  \/ \E p \in Procs : AssignSaveRoom(p)

Spec == Init /\ [][Next]_vars

\* the ledger operations together with the admin routes on Room documents
NextAdmin ==
  \/ Next
  \/ \E p \in Procs, r \in UpdateRoomRequests : UpdateRoom(p, r)
  \/ \E p \in Procs, r \in DeleteRoomRequests : DeleteRoomFind(p, r)
  \/ \E p \in Procs : DeleteRoomRemove(p)

SpecAdmin == Init /\ [][NextAdmin]_vars

\* the Bookings that hold a slot of room r
BookingsIn(bs, r) ==
  {b \in BookingIds : bs[b] # Null /\ bs[b].room = r
                      /\ bs[b].status \in ActiveStatuses}

\* a store that only the booking workflow has written: every Room holds as
\* many slots as it has confirmed or checked-in Bookings
InitLedger ==
  /\ Init
  /\ \A r \in RoomIds :
       rooms[r] # Null =>
         rooms[r].currentOccupancy = Cardinality(BookingsIn(bookings, r))

\* the booking workflow alone: createBooking, PUT /:id, deleteBooking
NextLedger ==
  \/ \E p \in Procs, r \in CreateRequests : CreateBookingBegin(p, r)
  \/ \E p \in Procs : CreateBookingWrite(p)
  \/ \E p \in Procs : CreateBookingCommit(p)
  \/ \E p \in Procs, r \in UpdateRequests : UpdateBooking(p, r)
  \/ \E p \in Procs, r \in DeleteRequests : DeleteBookingFind(p, r)
  \/ \E p \in Procs : DeleteBookingRoom(p)
  \/ \E p \in Procs : DeleteBookingSave(p)
  \/ \E p \in Procs : DeleteBookingRemove(p)

SpecLedger == InitLedger /\ [][NextLedger]_vars

\* Rooms as POST /rooms leaves them and the ledger operations keep them while
\* a place is free: status available and currentOccupancy below the capacity
InitFresh ==
  /\ Init
  /\ \A r \in RoomIds :
       rooms[r] # Null =>
         /\ rooms[r].status = "available"
         /\ rooms[r].currentOccupancy < rooms[r].capacity

\* createBooking, deleteBooking, adjustOccupancy and assignRoom
NextFour ==
  \/ \E p \in Procs, r \in CreateRequests : CreateBookingBegin(p, r)
  \/ \E p \in Procs : CreateBookingWrite(p)
  \/ \E p \in Procs : CreateBookingCommit(p)
  \/ \E p \in Procs, r \in DeleteRequests : DeleteBookingFind(p, r)
  \/ \E p \in Procs : DeleteBookingRoom(p)
  \/ \E p \in Procs : DeleteBookingSave(p)
  \/ \E p \in Procs : DeleteBookingRemove(p)
  \/ \E p \in Procs, r \in AdjustRequests : AdjustFind(p, r)
  \/ \E p \in Procs : AdjustSave(p)
  \/ \E p \in Procs, r \in AssignRequests : AssignFind(p, r)
  \/ \E p \in Procs : AssignSaveStudent(p)
  \/ \E p \in Procs : AssignSaveRoom(p)

SpecFresh == InitFresh /\ [][NextFour]_vars

\* every request is answered before the next one arrives: after the step at
\* most one handler is between two of its store operations
OneByOne ==
  \A p, q \in Procs : (pc'[p] # "idle" /\ pc'[q] # "idle") => p = q

\* the same four operations, one request at a time
NextOneByOne ==
  \/ \E p \in Procs, r \in CreateRequests : CreateBookingBegin(p, r) /\ OneByOne
  \/ \E p \in Procs : CreateBookingWrite(p) /\ OneByOne
  \/ \E p \in Procs : CreateBookingCommit(p) /\ OneByOne
  \/ \E p \in Procs, r \in DeleteRequests : DeleteBookingFind(p, r) /\ OneByOne
  \/ \E p \in Procs : DeleteBookingRoom(p) /\ OneByOne
  \/ \E p \in Procs : DeleteBookingSave(p) /\ OneByOne
  \/ \E p \in Procs : DeleteBookingRemove(p) /\ OneByOne
  \/ \E p \in Procs, r \in AdjustRequests : AdjustFind(p, r) /\ OneByOne
  \/ \E p \in Procs : AdjustSave(p) /\ OneByOne
  \/ \E p \in Procs, r \in AssignRequests : AssignFind(p, r) /\ OneByOne
  \/ \E p \in Procs : AssignSaveStudent(p) /\ OneByOne
  \/ \E p \in Procs : AssignSaveRoom(p) /\ OneByOne

SpecOneByOne == InitFresh /\ [][NextOneByOne]_vars

\* ------------------------------------------------ createReview (POST /)
\* The bookings the review routes find: 1 and 2 are completed stays in r1,
\* 3 is a stay in r2 that is not completed.  A review already in the store
\* was created by createReview when the room had no other review (which left
\* the zero summary on the Room) and may since have been set to pending.
ReviewBookings ==
  [b \in BookingIds |->
     IF b = 1 THEN [student |-> "s1", room |-> "r1", duration |-> 1,
                    status |-> "checked-out"]
     ELSE IF b = 2 THEN [student |-> "s2", room |-> "r1", duration |-> 1,
                         status |-> "checked-out"]
     ELSE IF b = 3 THEN [student |-> "s1", room |-> "r2", duration |-> 1,
                         status |-> "confirmed"]
     ELSE Null]

ReviewStore ==
  /\ rooms = [r \in RoomIds |->
                IF r = UnknownRoom THEN Null
                ELSE [capacity |-> 1, currentOccupancy |-> 0, status |-> "available"]]
  /\ rooms0 = rooms
  /\ bookings = ReviewBookings
  /\ bookings0 = bookings
  /\ nextId = 4
  /\ studentRoom = [s \in Students |-> Missing]
  /\ pc = [p \in Procs |-> "idle"]
  /\ req = [p \in Procs |-> NoReq]
  /\ loc = [p \in Procs |-> NoLoc]
  /\ last = NoLast
  /\ conflict = [p \in Procs |-> FALSE]
  /\ calls = 0

\* the review of booking 2 that may be in the store already
FirstReview(st) ==
  [i \in ReviewIds |->
     IF i = 1
     THEN [student |-> "s2", room |-> "r1", booking |-> 2, rating |-> 4,
           status |-> st]
     ELSE Null]

InitReview ==
  /\ ReviewStore
  /\ \/ /\ reviews = [i \in ReviewIds |-> Null]
        /\ ratings = [r \in RoomIds |-> NoRating]
     \/ \E st \in {"approved", "pending"} :
          /\ reviews = FirstReview(st)
          /\ ratings = [r \in RoomIds |->
                          IF r = "r1" THEN RoomRating(ZeroSummary) ELSE NoRating]

\* the same store with the Room's rating fields in step with its reviews (as
\* after a later createReview whose review was deleted again)
InitRollup ==
  /\ ReviewStore
  /\ \/ /\ reviews = [i \in ReviewIds |-> Null]
        /\ ratings = [r \in RoomIds |-> NoRating]
     \/ \E st \in {"approved", "pending"} :
          /\ reviews = FirstReview(st)
          /\ ratings = [r \in RoomIds |->
                          IF r = "r1"
                          THEN RoomRating(getRoomRatingSummary(FirstReview(st), "r1"))
                          ELSE NoRating]

CreateReviewRequests ==
  {[op |-> "createReview", student |-> "s1", room |-> "r1", booking |-> 1,
    rating |-> k] : k \in {0, 5, 6}}
  \cup {[op |-> "createReview", student |-> "s2", room |-> "r1", booking |-> 2,
         rating |-> 3],
        [op |-> "createReview", student |-> "s1", room |-> "r2", booking |-> 3,
         rating |-> 5],
        [op |-> "createReview", student |-> "s2", room |-> "r1", booking |-> 1,
         rating |-> 5]}

\* a review of the store that refers to the booking
ReviewOfBooking(rs, booking) ==
  {i \in ReviewIds : IsReview(rs[i]) /\ rs[i].booking = booking}

\* the first id no review has used
FreshReviewId == CHOOSE i \in ReviewIds :
                   reviews[i] = Null /\ \A j \in 1..(i - 1) : reviews[j] # Null

\* an id of a review created so far, or the first id of no review
KnownReviewId(i) == \A j \in 1..(i - 1) : reviews[j] # Null

\* canStudentReview, first query: Booking.findOne({_id, student, room,
\* status: "checked-out"})
CreateReviewBooking(p, r) ==
  /\ pc[p] = "idle"
  /\ calls < MaxCalls
  /\ r \in CreateReviewRequests
  /\ calls' = calls + 1
  /\ UNCHANGED <<rooms, bookings, studentRoom, nextId, conflict, rooms0, bookings0, reviews, ratings>>
  /\ IF \/ bookings[r.booking] = Null
        \/ bookings[r.booking].student # r.student
        \/ bookings[r.booking].room # r.room
        \/ bookings[r.booking].status # "checked-out"
     THEN Finish(p, r, "NotCompleted")
     ELSE Continue(p, r, "rv_existing", NoLoc)

\* canStudentReview, second query: Review.findOne({booking})
CreateReviewExisting(p) ==
  /\ pc[p] = "rv_existing"
  /\ UNCHANGED <<rooms, bookings, studentRoom, nextId, conflict, calls, rooms0, bookings0, reviews, ratings>>
  /\ IF ReviewOfBooking(reviews, req[p].booking) # {}
     THEN Finish(p, req[p], "Conflict")
     ELSE Continue(p, req[p], "rv_insert", NoLoc)

\* the checks of the handler on the body: !rating, rating < 1, rating > 5
ReviewBodyValid(r) == ~(r.rating = 0) /\ ~(r.rating < 1 \/ r.rating > 5)

\* reviewData of the handler
NewReview(r) ==
  [student |-> r.student, room |-> r.room, booking |-> r.booking,
   rating |-> r.rating, status |-> "approved"]

\* an open createReview transaction of another request has inserted a review
\* of the booking
InsertedByOther(p, booking) ==
  \E q \in Procs \ {p} :
    /\ pc[q] \in {"rv_aggregate", "rv_room", "rv_commit"}
    /\ req[q].booking = booking

UniqueIndexError_None(p, booking) == "ok"

\* the unique index on booking at the insert: a committed review of the
\* booking gives the duplicate key error (code 11000), an uncommitted one in
\* another transaction a write conflict
UniqueIndexError(p, booking) ==
  IF ReviewOfBooking(reviews, booking) # {} THEN "DuplicateKey"
  ELSE IF InsertedByOther(p, booking) THEN "WriteConflict"
  ELSE "ok"

\* startTransaction, the checks on the body, Review.create([reviewData],
\* {session}) up to the insert
CreateReviewInsert(p) ==
  /\ pc[p] = "rv_insert"
  /\ UNCHANGED <<rooms, bookings, studentRoom, nextId, conflict, calls, rooms0, bookings0, reviews, ratings>>
  /\ IF ~ReviewBodyValid(req[p])
     THEN Finish(p, req[p], "ValidationError")
     ELSE IF UniqueIndexError(p, req[p].booking) # "ok"
     THEN Finish(p, req[p], UniqueIndexError(p, req[p].booking))
     ELSE Continue(p, req[p], "rv_aggregate",
                   [review |-> NewReview(req[p]), summary |-> Null])

\* post("save") of the created review (status approved): the aggregate of
\* getRoomRatingSummary runs without the session, on the committed reviews
CreateReviewAggregate(p) ==
  /\ pc[p] = "rv_aggregate"
  /\ Continue(p, req[p], "rv_room",
              [loc[p] EXCEPT !.summary =
                 getRoomRatingSummary(reviews, loc[p].review.room)])
  /\ UNCHANGED <<rooms, bookings, studentRoom, nextId, conflict, calls, rooms0, bookings0, reviews, ratings>>

\* post("save"): Room.findByIdAndUpdate(this.room, {$set: ...}), without the
\* session: the write is in the store at once
CreateReviewRoom(p) ==
  /\ pc[p] = "rv_room"
  /\ ratings' = [ratings EXCEPT ![loc[p].review.room] = RoomRating(loc[p].summary)]
  /\ Continue(p, req[p], "rv_commit", loc[p])
  /\ UNCHANGED <<rooms, bookings, studentRoom, nextId, conflict, calls, rooms0, bookings0, reviews>>

\* session.commitTransaction(): the review becomes visible
CreateReviewCommit(p) ==
  /\ pc[p] = "rv_commit"
  /\ reviews' = [reviews EXCEPT ![FreshReviewId] = loc[p].review]
  /\ Continue(p, req[p], "rv_respond", loc[p])
  /\ UNCHANGED <<rooms, bookings, studentRoom, nextId, conflict, calls, rooms0, bookings0, ratings>>

\* Review.findById(...).populate(...) and the 201 response
CreateReviewRespond(p) ==
  /\ pc[p] = "rv_respond"
  /\ Finish(p, req[p], "ok")
  /\ UNCHANGED <<rooms, bookings, studentRoom, nextId, conflict, calls, rooms0, bookings0, reviews, ratings>>

\* ------------------------------------------------ updateReview (PUT /:id)
\* rating 0 stands for a body without rating (if (rating) ...)
UpdateReviewRequests ==
  {[op |-> "updateReview", id |-> i, rating |-> k] :
     i \in ReviewIds, k \in {0, 2, 6}}

\* Review.findById
UpdateReviewFind(p, r) ==
  /\ pc[p] = "idle"
  /\ calls < MaxCalls
  /\ r \in UpdateReviewRequests
  /\ KnownReviewId(r.id)
  /\ calls' = calls + 1
  /\ UNCHANGED <<rooms, bookings, studentRoom, nextId, conflict, rooms0, bookings0, reviews, ratings>>
  /\ IF ~IsReview(reviews[r.id])
     THEN Finish(p, r, "NotFound")
     ELSE Continue(p, r, "ur_write", NoLoc)

\* Review.findByIdAndUpdate(id, updateData, {new: true, runValidators: true});
\* a review deleted in between gives data: null with success: true
UpdateReviewWrite(p) ==
  /\ pc[p] = "ur_write"
  /\ UNCHANGED <<rooms, bookings, studentRoom, nextId, conflict, calls, rooms0, bookings0, ratings>>
  /\ IF req[p].rating # 0 /\ req[p].rating \notin Stars
     THEN Finish(p, req[p], "ValidationError") /\ UNCHANGED reviews
     ELSE /\ reviews' = IF IsReview(reviews[req[p].id]) /\ req[p].rating # 0
                        THEN [reviews EXCEPT ![req[p].id].rating = req[p].rating]
                        ELSE reviews
          /\ Finish(p, req[p], "ok")

\* --------------------------------------------- deleteReview (DELETE /:id)
DeleteReviewRequests == {[op |-> "deleteReview", id |-> i] : i \in ReviewIds}

\* Review.findById
DeleteReviewFind(p, r) ==
  /\ pc[p] = "idle"
  /\ calls < MaxCalls
  /\ r \in DeleteReviewRequests
  /\ KnownReviewId(r.id)
  /\ calls' = calls + 1
  /\ UNCHANGED <<rooms, bookings, studentRoom, nextId, conflict, rooms0, bookings0, reviews, ratings>>
  /\ IF ~IsReview(reviews[r.id])
     THEN Finish(p, r, "NotFound")
     ELSE Continue(p, r, "dv_remove", NoLoc)

\* Review.findByIdAndDelete
DeleteReviewRemove(p) ==
  /\ pc[p] = "dv_remove"
  /\ reviews' = [reviews EXCEPT ![req[p].id] = Removed]
  /\ Finish(p, req[p], "ok")
  /\ UNCHANGED <<rooms, bookings, studentRoom, nextId, conflict, calls, rooms0, bookings0, ratings>>

\* ------------------------------------- setReviewStatus (PATCH /:id/status)
ReviewStatusRequests ==
  {[op |-> "setReviewStatus", id |-> i, status |-> st] :
     i \in ReviewIds, st \in ReviewStatuses \cup {"bogus"}}

\* the check of the status and Review.findByIdAndUpdate(id, {status})
SetReviewStatus(p, r) ==
  /\ pc[p] = "idle"
  /\ calls < MaxCalls
  /\ r \in ReviewStatusRequests
  /\ KnownReviewId(r.id)
  /\ calls' = calls + 1
  /\ UNCHANGED <<rooms, bookings, studentRoom, nextId, conflict, rooms0, bookings0, ratings>>
  /\ IF r.status \notin ReviewStatuses
     THEN Finish(p, r, "ValidationError") /\ UNCHANGED reviews
     ELSE IF ~IsReview(reviews[r.id])
     THEN Finish(p, r, "NotFound") /\ UNCHANGED reviews
     ELSE /\ reviews' = [reviews EXCEPT ![r.id].status = r.status]
          /\ Finish(p, r, "ok")

NextReview ==
  \/ \E p \in Procs, r \in CreateReviewRequests : CreateReviewBooking(p, r)
  \/ \E p \in Procs : CreateReviewExisting(p)
  \/ \E p \in Procs : CreateReviewInsert(p)
  \/ \E p \in Procs : CreateReviewAggregate(p)
  \/ \E p \in Procs : CreateReviewRoom(p)
  \/ \E p \in Procs : CreateReviewCommit(p)
  \/ \E p \in Procs : CreateReviewRespond(p)
  \/ \E p \in Procs, r \in UpdateReviewRequests : UpdateReviewFind(p, r)
  \/ \E p \in Procs : UpdateReviewWrite(p)
  \/ \E p \in Procs, r \in DeleteReviewRequests : DeleteReviewFind(p, r)
  \/ \E p \in Procs : DeleteReviewRemove(p)
  \/ \E p \in Procs, r \in ReviewStatusRequests : SetReviewStatus(p, r)

SpecReview == InitReview /\ [][NextReview]_vars

SpecRollup == InitRollup /\ [][NextReview]_vars

\* --------------------------------- rating summary (GET /stats/room/:roomId)
\* The summary as a function of the stored reviews: the store holds any
\* reviews of the two rooms (approved with any rating, pending, rejected), and
\* the only operation is the read-only statistics route.  With at most
\* MaxReviews reviews in a group every tie of the rounding (x.25, x.75) is a
\* binary fraction, so the tenths computed here are the ones JavaScript gives.
SummaryShapes ==
  {[room |-> "r1", rating |-> k, status |-> "approved"] : k \in Stars}
  \cup {[room |-> "r1", rating |-> 5, status |-> "pending"],
        [room |-> "r1", rating |-> 1, status |-> "rejected"],
        [room |-> "r2", rating |-> 1, status |-> "approved"]}

\* review i, written for booking i (one review per booking)
ReviewOfShape(i, sh) ==
  IF sh = Null THEN Null
  ELSE [student |-> "s1", room |-> sh.room, booking |-> i,
        rating |-> sh.rating, status |-> sh.status]

InitSummary ==
  /\ rooms = [r \in RoomIds |->
                IF r = UnknownRoom THEN Null
                ELSE [capacity |-> 1, currentOccupancy |-> 0, status |-> "available"]]
  /\ rooms0 = rooms
  /\ bookings = [b \in BookingIds |-> Null]
  /\ bookings0 = bookings
  /\ nextId = 1
  /\ studentRoom = [s \in Students |-> Missing]
  /\ pc = [p \in Procs |-> "idle"]
  /\ req = [p \in Procs |-> NoReq]
  /\ loc = [p \in Procs |-> NoLoc]
  /\ last = NoLast
  /\ conflict = [p \in Procs |-> FALSE]
  /\ calls = 0
  /\ \E sh \in [ReviewIds -> SummaryShapes \cup {Null}] :
       reviews = [i \in ReviewIds |-> ReviewOfShape(i, sh[i])]
  /\ ratings = [r \in RoomIds |-> NoRating]

\* Review.getRoomRatingSummary(req.params.roomId), sent as the response data
RoomStats(r) ==
  /\ r \in RoomIds
  /\ last' = [req |-> [op |-> "roomStats", room |-> r], kind |-> "ok",
              data |-> getRoomRatingSummary(reviews, r)]
  /\ UNCHANGED <<rooms, bookings, studentRoom, nextId, pc, req, loc, conflict,
                 calls, rooms0, bookings0, reviews, ratings>>

NextSummary == \E r \in RoomIds : RoomStats(r)

SpecSummary == InitSummary /\ [][NextSummary]_vars

\* ------------------------------------------------------- reading the steps
\* a request starts in this step; when its handler answers within the
\* step no caller's position changes, and any idle caller may be the one
Began(p) ==
  /\ calls' = calls + 1
  /\ pc[p] = "idle"
  /\ \/ pc'[p] # "idle"
     \/ pc' = pc

Request(p) == IF pc'[p] # "idle" THEN req'[p] ELSE last'.req

\* caller p receives its response in this step: last' holds it
Responded(p) ==
  \/ pc[p] # "idle" /\ pc'[p] = "idle"
  \/ Began(p) /\ pc'[p] = "idle"

ExistingRooms == {r \in RoomIds : rooms[r] # Null}

ActiveBookings(bs, student) ==
  {b \in BookingIds : bs[b] # Null /\ bs[b].student = student
                      /\ bs[b].status \in ActiveStatuses}

NewBookings == {b \in BookingIds : bookings0[b] = Null /\ bookings[b] # Null}

\* ---------------------------------------------------------------- claims

\* C1: for every Room, 0 <= currentOccupancy <= capacity in every reachable
\* state, under any interleaving of createBooking, deleteBooking,
\* adjustOccupancy and assignRoom.
C1_OccupancyWithinCapacity ==
  \A r \in ExistingRooms :
    /\ 0 <= rooms[r].currentOccupancy
    /\ rooms[r].currentOccupancy <= rooms[r].capacity

\* a room filled to its capacity by a createBooking while a second
\* createBooking for the same room is still in its transaction
C1_Witness ==
  \E p \in Procs :
    /\ last.req.op = "createBooking" /\ last.kind = "ok"
    /\ pc[p] = "cb_write" /\ req[p].room = last.req.room
    /\ rooms[last.req.room].currentOccupancy = rooms[last.req.room].capacity

\* C2: for every Student at most one Booking is confirmed or checked-in.
C2_AtMostOneActiveBooking ==
  \A s \in Students : Cardinality(ActiveBookings(bookings, s)) <= 1

\* C3 (as claimed): room at capacity 2, occupancy 1, available; two
\* createBooking calls for it by two students without active booking: exactly
\* one succeeds, the other fails with Capacity, and the room ends at
\* occupancy 2, occupied, with exactly one new booking.
C3_Scenario ==
  /\ calls' = 2
  /\ \A p \in Procs : pc'[p] = "idle"
  /\ \E p \in Procs : Responded(p)
  /\ last.kind # "none"
  /\ last.req.op = "createBooking" /\ last'.req.op = "createBooking"
  /\ last.req.room = last'.req.room
  /\ last.req.student \in Students /\ last'.req.student \in Students
  /\ last.req.student # last'.req.student
  /\ \A r \in {last.req, last'.req} :
       /\ r.status = Missing
       /\ validateBookingDates(r.checkInDate, r.checkOutDate)
       /\ ~HasActiveBooking(bookings0, r.student)
  /\ rooms0[last.req.room] =
       [capacity |-> 2, currentOccupancy |-> 1, status |-> "available"]

C3_FinalState ==
  LET r == last'.req.room
      created == {b \in BookingIds : bookings0[b] = Null /\ bookings'[b] # Null}
  IN  /\ rooms'[r].currentOccupancy = 2
      /\ rooms'[r].status = "occupied"
      /\ Cardinality(created) = 1

C3_OneSucceedsOtherCapacity ==
  [][C3_Scenario =>
       /\ {last.kind, last'.kind} = {"ok", "Capacity"}
       /\ C3_FinalState]_vars

\* C3 (amended): ... the other fails with Unavailable (it read the room after
\* the winner's commit, when its status is occupied) or with the store's
\* write conflict (it read the room before the winner's commit).
C3_OneSucceedsOtherRejected ==
  [][C3_Scenario =>
       /\ \/ last.kind = "ok" /\ last'.kind \in {"Unavailable", "WriteConflict"}
          \/ last'.kind = "ok" /\ last.kind \in {"Unavailable", "WriteConflict"}
       /\ C3_FinalState]_vars

\* both calls of the scenario have ended and the loser overlapped the winner
C3_Witness ==
  /\ calls = 2
  /\ \A p \in Procs : pc[p] = "idle"
  /\ last.req.op = "createBooking" /\ last.kind = "WriteConflict"
  /\ rooms0[last.req.room] =
       [capacity |-> 2, currentOccupancy |-> 1, status |-> "available"]
  /\ rooms[last.req.room].currentOccupancy = 2
  /\ rooms[last.req.room].status = "occupied"
  /\ \E b \in NewBookings : bookings[b].student # last.req.student
                            /\ bookings[b].room = last.req.room

\* C4: createBooking is all-or-nothing: a call that ends with success has
\* inserted its Booking and incremented its Room in the same step, a call that
\* ends with any failure has changed neither, no step of a call in progress
\* changes either, and no Booking ever appears without the increment.
C4_AllOrNothing ==
  [][/\ \A p \in Procs :
          (Responded(p) /\ last'.req.op = "createBooking") =>
            IF last'.kind = "ok"
            THEN /\ \E b \in BookingIds :
                      /\ bookings[b] = Null
                      /\ bookings'[b] # Null
                      /\ bookings'[b].student = last'.req.student
                      /\ bookings'[b].room = last'.req.room
                      /\ \A c \in BookingIds \ {b} : bookings'[c] = bookings[c]
                 /\ rooms'[last'.req.room].currentOccupancy =
                      rooms[last'.req.room].currentOccupancy + 1
                 /\ \A r \in RoomIds \ {last'.req.room} : rooms'[r] = rooms[r]
            ELSE rooms' = rooms /\ bookings' = bookings
     /\ \A p \in Procs :
          (pc'[p] \in {"cb_write", "cb_commit"} /\ pc'[p] # pc[p]) =>
            rooms' = rooms /\ bookings' = bookings
     /\ \A b \in BookingIds :
          (bookings[b] = Null /\ bookings'[b] # Null) =>
            rooms'[bookings'[b].room].currentOccupancy =
              rooms[bookings'[b].room].currentOccupancy + 1]_vars

\* a createBooking has failed after its room check passed (its room write
\* conflicted), and neither its Booking nor its increment is stored
C4_Witness ==
  /\ last.req.op = "createBooking" /\ last.kind = "WriteConflict"
  /\ \A b \in NewBookings : bookings[b].student # last.req.student
  /\ \A p \in Procs : pc[p] = "idle"

\* C5: a transition of an active Booking to checked-out succeeds and
\* decrements the Room's occupancy once; the same transition on the Booking
\* once it is checked-out fails with InvalidState and changes nothing.
C5_CheckoutReleasesOnce ==
  [][\A p \in Procs :
       (/\ Responded(p)
        /\ last'.req.op = "updateBooking"
        /\ last'.req.status = "checked-out"
        /\ bookings[last'.req.id] # Null) =>
          LET b == bookings[last'.req.id]
          IN  IF b.status \in ActiveStatuses
              THEN /\ last'.kind = "ok"
                   /\ bookings'[last'.req.id].status = "checked-out"
                   /\ rooms[b.room] # Null =>
                        rooms'[b.room].currentOccupancy =
                          Max(0, rooms[b.room].currentOccupancy - 1)
              ELSE /\ last'.kind = "InvalidState"
                   /\ rooms' = rooms /\ bookings' = bookings]_vars

\* C6: a Booking's status changes only along confirmed -> checked-in,
\* checked-in -> checked-out, confirmed -> cancelled, checked-in -> cancelled.
LegalEdges ==
  {<<"confirmed", "checked-in">>, <<"checked-in", "checked-out">>,
   <<"confirmed", "cancelled">>, <<"checked-in", "cancelled">>}

C6_OnlyLegalEdges ==
  [][\A b \in BookingIds :
       (/\ bookings[b] # Null /\ bookings'[b] # Null
        /\ bookings'[b].status # bookings[b].status) =>
          <<bookings[b].status, bookings'[b].status>> \in LegalEdges]_vars

\* C7: deleteBooking of a confirmed or checked-in Booking decrements its
\* Room's occupancy by 1, not below 0, sets the status to available when the
\* result is below capacity, and then removes the Booking; deleteBooking of a
\* checked-out or cancelled Booking removes it and writes no Room.  (The Room
\* is compared with the document the handler loaded: the claim is about the
\* handler running without another write to the Room in between.)
C7_DeleteReleasesSlot ==
  [][\A p \in Procs :
       /\ (pc[p] = "db_save" /\ pc'[p] # pc[p]
           /\ rooms[loc[p].booking.room] = loc[p].room) =>
            LET r == loc[p].booking.room
                occ == Max(0, rooms[r].currentOccupancy - 1)
            IN  /\ loc[p].booking.status \in ActiveStatuses
                /\ pc'[p] = "db_remove"
                /\ rooms'[r].currentOccupancy = occ
                /\ rooms'[r].capacity = rooms[r].capacity
                /\ rooms'[r].status =
                     IF occ < rooms[r].capacity THEN "available"
                     ELSE rooms[r].status
                /\ (rooms[r].currentOccupancy = rooms[r].capacity
                    /\ rooms[r].status = "occupied") =>
                      /\ rooms'[r].currentOccupancy = rooms[r].capacity - 1
                      /\ rooms'[r].status = "available"
       /\ (Began(p) /\ Request(p).op = "deleteBooking"
           /\ bookings[Request(p).id] # Null) =>
            /\ rooms' = rooms
            /\ pc'[p] = IF bookings[Request(p).id].status \in ActiveStatuses
                        THEN "db_room" ELSE "db_remove"
       /\ (pc[p] = "db_room" /\ pc'[p] # pc[p]) =>
            /\ rooms' = rooms
            /\ rooms[loc[p].booking.room] # Null => pc'[p] = "db_save"
       /\ (pc[p] = "db_remove" /\ pc'[p] # pc[p]) =>
            /\ rooms' = rooms
            /\ bookings'[req[p].id] = Null
            /\ last'.kind = "ok"]_vars

\* a deleteBooking has released the slot of a confirmed booking in a room
\* that was at full capacity and occupied, and is about to remove the booking
C7_Witness ==
  \E p \in Procs :
    /\ pc[p] = "db_remove"
    /\ loc[p].booking.status = "confirmed"
    /\ loc[p].room # Null
    /\ loc[p].room.currentOccupancy = loc[p].room.capacity
    /\ loc[p].room.status = "occupied"
    /\ rooms[loc[p].booking.room].currentOccupancy = loc[p].room.capacity - 1
    /\ rooms[loc[p].booking.room].status = "available"

\* C8: the room check of createBooking fails with NotFound for an absent
\* room, Unavailable for a status other than available, Capacity for
\* currentOccupancy >= capacity, each time changing no Room and no Booking;
\* a createBooking that succeeds raises currentOccupancy by exactly 1 and
\* leaves the status occupied if and only if the new occupancy equals capacity.
C8_ReserveSlot ==
  [][\A p \in Procs :
       /\ (/\ Began(p)
           /\ Request(p).op = "createBooking"
           /\ validateBookingRequest(Request(p).student, Request(p).room,
                                     Request(p).checkInDate, Request(p).checkOutDate)
           /\ validateBookingDates(Request(p).checkInDate, Request(p).checkOutDate)
           /\ Request(p).student \in Students) =>
            LET room == rooms[Request(p).room]
                failed(kind) == /\ pc'[p] = "idle" /\ last'.kind = kind
                                /\ rooms' = rooms /\ bookings' = bookings
            IN  /\ room = Null => failed("NotFound")
                /\ (room # Null /\ room.status # "available") =>
                     failed("Unavailable")
                /\ (room # Null /\ room.status = "available"
                    /\ room.currentOccupancy >= room.capacity) =>
                     failed("Capacity")
       /\ (Responded(p) /\ last'.req.op = "createBooking"
           /\ last'.kind = "ok") =>
            LET r == last'.req.room
            IN  /\ rooms'[r].currentOccupancy = rooms[r].currentOccupancy + 1
                /\ rooms'[r].capacity = rooms[r].capacity
                /\ rooms'[r].status = "occupied" <=>
                     rooms'[r].currentOccupancy = rooms'[r].capacity]_vars

\* a createBooking was refused with Capacity by an available room whose
\* occupancy equals its capacity
C8_Witness ==
  /\ last.req.op = "createBooking" /\ last.kind = "Capacity"
  /\ rooms[last.req.room].status = "available"
  /\ rooms[last.req.room].currentOccupancy = rooms[last.req.room].capacity

\* C9: adjustOccupancy +1 at currentOccupancy = capacity fails with Capacity,
\* -1 at currentOccupancy = 0 fails with InvalidState, any other action is
\* refused, each time with the stored Room unchanged; otherwise the stored
\* currentOccupancy changes by exactly the delta.  (As in C7, the change is
\* measured on a Room nobody else wrote between the handler's read and save.)
C9_AdjustOccupancy ==
  [][\A p \in Procs :
       /\ (Began(p) /\ Request(p).op = "adjustOccupancy"
           /\ rooms[Request(p).room] # Null) =>
            LET room == rooms[Request(p).room]
                action == Request(p).action
                failed(kind) == /\ pc'[p] = "idle" /\ last'.kind = kind
                                /\ rooms' = rooms
            IN  /\ (action = "increase"
                    /\ room.currentOccupancy = room.capacity) =>
                      failed("Capacity")
                /\ (action = "decrease" /\ room.currentOccupancy = 0) =>
                      failed("InvalidState")
                /\ action \notin {"increase", "decrease"} =>
                      failed("ValidationError")
                /\ (action = "increase"
                    /\ room.currentOccupancy < room.capacity) =>
                      pc'[p] = "ao_save"
                /\ (action = "decrease" /\ room.currentOccupancy > 0) =>
                      pc'[p] = "ao_save"
       /\ (pc[p] = "ao_save" /\ pc'[p] # pc[p]
           /\ rooms[req[p].room] = loc[p].room) =>
            /\ last'.kind = "ok"
            /\ rooms'[req[p].room].currentOccupancy =
                 rooms[req[p].room].currentOccupancy +
                   (IF req[p].action = "increase" THEN 1 ELSE 0 - 1)]_vars

\* an increase was refused with Capacity on a full room, which is unchanged
C9_Witness ==
  /\ last.req.op = "adjustOccupancy" /\ last.req.action = "increase"
  /\ last.kind = "Capacity"
  /\ rooms[last.req.room].currentOccupancy = rooms[last.req.room].capacity
  /\ rooms[last.req.room] = rooms0[last.req.room]

\* C10: a release (the room write of deleteBooking, or of adjustOccupancy
\* with decrease) on a Room whose status is maintenance leaves it maintenance.
C10_MaintenanceSticky ==
  [][\A p \in Procs :
       LET r == IF pc[p] = "db_save" THEN loc[p].booking.room ELSE req[p].room
       IN  (/\ \/ pc[p] = "db_save"
               \/ pc[p] = "ao_save" /\ req[p].action = "decrease"
            /\ pc'[p] # pc[p]
            /\ rooms[r].status = "maintenance") =>
              rooms'[r].status = "maintenance"]_vars

\* C11: no call path persists a Room with currentOccupancy > capacity: no
\* step stores such a Room, and a room update whose body would produce one is
\* rejected with an error and leaves the stored Room unchanged.
C11_NoPathOverCapacity ==
  [][/\ \A r \in RoomIds :
          rooms'[r] # Null => rooms'[r].currentOccupancy <= rooms'[r].capacity
     /\ \A p \in Procs :
          (/\ Began(p)
           /\ Request(p).op = "updateRoom"
           /\ rooms[Request(p).room] # Null
           /\ LET body == Request(p).body
                  occ == IF "currentOccupancy" \in DOMAIN body
                         THEN body.currentOccupancy
                         ELSE rooms[Request(p).room].currentOccupancy
                  cap == IF "capacity" \in DOMAIN body
                         THEN body.capacity
                         ELSE rooms[Request(p).room].capacity
              IN  occ > cap) =>
            /\ pc'[p] = "idle"
            /\ last'.kind \notin {"ok", "none"}
            /\ rooms' = rooms]_vars

\* C12: a createBooking call with a required field missing, checkInDate
\* before today, checkOutDate not after checkInDate, or a computed duration
\* above 12 months answers ValidationError at once and changes no Room and no
\* Booking.
C12_ValidationRejects ==
  [][\A p \in Procs :
       (/\ Began(p)
        /\ Request(p).op = "createBooking"
        /\ \/ Missing \in {Request(p).student, Request(p).room}
           \/ NoDate \in {Request(p).checkInDate, Request(p).checkOutDate}
           \/ Request(p).checkInDate < Today
           \/ Request(p).checkOutDate <= Request(p).checkInDate
           \/ calculateDuration(Request(p).checkInDate,
                                Request(p).checkOutDate) > 12) =>
          /\ pc'[p] = "idle"
          /\ last'.kind = "ValidationError"
          /\ rooms' = rooms
          /\ bookings' = bookings
          /\ studentRoom' = studentRoom]_vars

\* a createBooking with checkInDate = yesterday on a room with a free slot
\* was answered ValidationError and the store is as it was
C12_Witness ==
  /\ last.req.op = "createBooking" /\ last.kind = "ValidationError"
  /\ last.req.checkInDate = Today - 1
  /\ checkRoomAvailability(rooms[last.req.room]) = "ok"
  /\ rooms = rooms0 /\ bookings = bookings0

\* the step in which the second of the two calls made so far is answered:
\* last holds the first answer, last' the second
TwoCallsAnswered ==
  /\ calls' = 2
  /\ \A p \in Procs : pc'[p] = "idle"
  /\ \E p \in Procs : Responded(p)
  /\ last.kind # "none"

\* C13: for every Booking at most one Review (hence at most one approved
\* Review) refers to it in every reachable state, also when two createReview
\* calls for the booking both pass the already-reviewed check before either
\* inserts.
C13_OneReviewPerBooking ==
  \A b \in BookingIds :
    Cardinality({i \in ReviewIds : IsReview(reviews[i])
                                   /\ reviews[i].booking = b}) <= 1

\* a createReview passed the already-reviewed check and was then refused at
\* its insert by the unique index, while one review of the booking exists or
\* is being committed by the other caller
C13_Witness ==
  /\ last.req.op = "createReview"
  /\ last.kind \in {"DuplicateKey", "WriteConflict"}
  /\ \/ Cardinality(ReviewOfBooking(reviews, last.req.booking)) = 1
     \/ \E p \in Procs : /\ pc[p] \in {"rv_aggregate", "rv_room", "rv_commit"}
                         /\ req[p].booking = last.req.booking

\* the approved reviews of room r, and how many of them give k stars
ApprovedOf(r) ==
  {i \in ReviewIds : IsReview(reviews[i]) /\ reviews[i].room = r
                     /\ reviews[i].status = "approved"}

StarCount(r, k) == Cardinality({i \in ApprovedOf(r) : reviews[i].rating = k})

StarSum(r) ==
  StarCount(r, 1) + (2 * StarCount(r, 2)) + (3 * StarCount(r, 3))
    + (4 * StarCount(r, 4)) + (5 * StarCount(r, 5))

\* C14: the rating summary of a Room has totalReviews = the number of its
\* approved reviews, ratingDistribution = their count per star value 1..5 and
\* averageRating = their mean rounded to one decimal place (a nearest tenth;
\* approved ratings 5,4,3 give 4.0, 3 and {1:0,2:0,3:1,4:1,5:1}); pending and
\* rejected reviews and reviews of other rooms count for nothing, and with no
\* approved review the summary is averageRating 0, totalReviews 0.
C14_RatingSummary ==
  last.req.op = "roomStats" =>
    LET r == last.req.room
        n == Cardinality(ApprovedOf(r))
    IN  /\ last.data.totalReviews = n
        /\ \A k \in 1..5 : last.data.ratingDistribution[k] = StarCount(r, k)
        /\ n > 0 =>
             2 * Abs((n * last.data.averageRating) - (10 * StarSum(r))) <= n
        /\ n = 0 => last.data.averageRating = 0
        /\ (n = 3 /\ \A k \in {3, 4, 5} : StarCount(r, k) = 1) =>
             /\ last.data.averageRating = 40
             /\ last.data.ratingDistribution = <<0, 0, 1, 1, 1>>

\* the summary of a room with approved ratings 5, 4, 3 and one more review
\* that is not approved or belongs to the other room: 4.0, 3, {3:1,4:1,5:1}
C14_Witness ==
  /\ last.req.op = "roomStats" /\ last.req.room = "r1"
  /\ \A k \in {3, 4, 5} : StarCount("r1", k) = 1
  /\ Cardinality(ApprovedOf("r1")) = 3
  /\ Cardinality({i \in ReviewIds : IsReview(reviews[i])}) = 4
  /\ last.data.averageRating = 40
  /\ last.data.totalReviews = 3

\* the review a successful review request r wrote, in the store rs
WrittenReviews(rs, r) ==
  IF r.op = "createReview" THEN ReviewOfBooking(rs, r.booking)
  ELSE {i \in {r.id} : IsReview(rs[i])}

\* C15: when a createReview, a status change to approved, or an edit of the
\* rating of an approved review is answered with success and the review is
\* stored as approved, the Room's rating, totalReviews and ratingSummary are
\* the summary of a set of approved reviews of the room that contains the
\* review as just written; a status change to pending or rejected leaves the
\* Room's rating fields as they are.
C15_RecomputeOnApproved ==
  [][\A p \in Procs :
       /\ (/\ Responded(p)
           /\ last'.kind = "ok"
           /\ \/ last'.req.op = "createReview"
              \/ last'.req.op = "setReviewStatus" /\ last'.req.status = "approved"
              \/ last'.req.op = "updateReview" /\ last'.req.rating # 0) =>
            \A i \in WrittenReviews(reviews', last'.req) :
              reviews'[i].status = "approved" =>
                \E S \in SUBSET MatchApproved(reviews', reviews'[i].room) :
                  /\ i \in S
                  /\ ratings'[reviews'[i].room] =
                       RoomRating(GroupSummary(reviews', S))
       /\ (/\ Responded(p)
           /\ last'.req.op = "setReviewStatus"
           /\ last'.req.status \in {"pending", "rejected"}) =>
            ratings' = ratings]_vars

\* C15 for createReview alone
C15_CreateRecomputes ==
  [][\A p \in Procs :
       (Responded(p) /\ last'.kind = "ok" /\ last'.req.op = "createReview") =>
         \A i \in ReviewOfBooking(reviews', last'.req.booking) :
           reviews'[i].status = "approved" =>
             \E S \in SUBSET MatchApproved(reviews', reviews'[i].room) :
               /\ i \in S
               /\ ratings'[reviews'[i].room] =
                    RoomRating(GroupSummary(reviews', S))]_vars

\* C16: binding one student to one room through both assignRoom and
\* createBooking raises that Room's currentOccupancy by exactly 1 in total.
C16_NoDoubleCount ==
  [][(/\ TwoCallsAnswered
      /\ last.kind = "ok" /\ last'.kind = "ok"
      /\ {last.req.op, last'.req.op} = {"assignRoom", "createBooking"}
      /\ last.req.student = last'.req.student
      /\ last.req.room = last'.req.room) =>
        rooms'[last'.req.room].currentOccupancy =
          rooms0[last'.req.room].currentOccupancy + 1]_vars

\* the Booking a successful deleteBooking r removed, when the only other call
\* is `other': a Booking of the initial store, or the one `other' created
DeletedBooking(r, other) ==
  IF bookings0[r.id] # Null THEN bookings0[r.id] ELSE NewBooking(other)

\* the Room a successful occupancy-changing request works on
TargetRoom(r, other) ==
  IF r.op = "deleteBooking" THEN DeletedBooking(r, other).room ELSE r.room

\* the change of currentOccupancy a successful request stands for
Delta(r, other) ==
  IF r.op \in {"createBooking", "assignRoom"} THEN 1
  ELSE IF r.op = "adjustOccupancy"
  THEN (IF r.action = "increase" THEN 1 ELSE 0 - 1)
  ELSE IF DeletedBooking(r, other).status \in ActiveStatuses THEN 0 - 1
  ELSE 0

\* C17: when two occupancy-changing operations on the same Room
\* (adjustOccupancy, deleteBooking, assignRoom, createBooking) both report
\* success, the final currentOccupancy is the initial one plus both deltas.
\* (Two deleteBooking calls for one Booking stand for one release and are left
\* to C18; the releases are counted where the floor at 0 is not reached.)
C17_NoLostUpdate ==
  [][(/\ TwoCallsAnswered
      /\ last.kind = "ok" /\ last'.kind = "ok"
      /\ {last.req.op, last'.req.op} \subseteq
           {"adjustOccupancy", "deleteBooking", "assignRoom", "createBooking"}
      /\ ~(last.req.op = "deleteBooking" /\ last'.req = last.req)
      /\ TargetRoom(last.req, last'.req) = TargetRoom(last'.req, last.req)
      /\ rooms0[TargetRoom(last.req, last'.req)] # Null
      /\ \A d \in {Delta(last.req, last'.req), Delta(last'.req, last.req),
                    Delta(last.req, last'.req) + Delta(last'.req, last.req)} :
           rooms0[TargetRoom(last.req, last'.req)].currentOccupancy + d >= 0) =>
        rooms'[TargetRoom(last.req, last'.req)].currentOccupancy =
          rooms0[TargetRoom(last.req, last'.req)].currentOccupancy
            + Delta(last.req, last'.req) + Delta(last'.req, last.req)]_vars

\* C18: deleteBooking is one atomic unit: the step that releases the Room
\* also removes the Booking, and one active Booking causes at most one release
\* of its Room, also when two deleteBooking calls for it interleave.
C18_DeleteAtomic ==
  [][/\ \A p \in Procs :
          (pc[p] = "db_save" /\ pc'[p] # pc[p] /\ rooms' # rooms) =>
            bookings'[req[p].id] = Null
     /\ (/\ TwoCallsAnswered
         /\ last.req.op = "deleteBooking" /\ last'.req = last.req
         /\ bookings0[last.req.id] # Null
         /\ bookings0[last.req.id].status \in ActiveStatuses) =>
           rooms'[bookings0[last.req.id].room].currentOccupancy >=
             rooms0[bookings0[last.req.id].room].currentOccupancy - 1]_vars

\* C18 (second part alone): two deleteBooking calls for one active Booking
\* release its Room at most once
C18_OneRelease ==
  [][(/\ TwoCallsAnswered
      /\ last.req.op = "deleteBooking" /\ last'.req = last.req
      /\ bookings0[last.req.id] # Null
      /\ bookings0[last.req.id].status \in ActiveStatuses) =>
        rooms'[bookings0[last.req.id].room].currentOccupancy >=
          rooms0[bookings0[last.req.id].room].currentOccupancy - 1]_vars

\* C19: a Room is removed only if its currentOccupancy is 0 at the moment of
\* removal; deleteRoom on a Room with currentOccupancy > 0 fails and leaves
\* the Room in place; and a deleteRoom and a createBooking, however they
\* interleave, leave no active new Booking that refers to a removed Room.
C19_DeleteOnlyEmptyRoom ==
  [][/\ \A r \in RoomIds :
          (rooms[r] # Null /\ rooms'[r] = Null) => rooms[r].currentOccupancy = 0
     /\ \A p \in Procs :
          (/\ Began(p)
           /\ Request(p).op = "deleteRoom"
           /\ rooms[Request(p).room] # Null
           /\ rooms[Request(p).room].currentOccupancy > 0) =>
             /\ pc'[p] = "idle"
             /\ last'.kind \notin {"ok", "none"}
             /\ rooms' = rooms
     /\ (/\ TwoCallsAnswered
         /\ {last.req.op, last'.req.op} = {"createBooking", "deleteRoom"}) =>
           \A b \in BookingIds :
             (/\ bookings0[b] = Null /\ bookings'[b] # Null
              /\ bookings'[b].status \in ActiveStatuses) =>
                rooms'[bookings'[b].room] # Null]_vars

\* C19 (third part alone): deleteRoom interleaved with createBooking
C19_NoBookingOfRemovedRoom ==
  [][(/\ TwoCallsAnswered
      /\ {last.req.op, last'.req.op} = {"createBooking", "deleteRoom"}) =>
        \A b \in BookingIds :
          (/\ bookings0[b] = Null /\ bookings'[b] # Null
           /\ bookings'[b].status \in ActiveStatuses) =>
             rooms'[bookings'[b].room] # Null]_vars

\* C20: with Rooms written only by the booking workflow, in every state with
\* no operation in progress each Room's currentOccupancy is the number of
\* Bookings of that Room whose status is confirmed or checked-in.
C20_LedgerEquality ==
  (\A p \in Procs : pc[p] = "idle") =>
    \A r \in ExistingRooms :
      rooms[r].currentOccupancy =
        Cardinality({b \in BookingIds :
                       /\ bookings[b] # Null
                       /\ bookings[b].room = r
                       /\ bookings[b].status \in {"confirmed", "checked-in"}})

\* C21: whenever no review operation is in progress, Room.totalReviews is the
\* number of the room's Reviews with status approved and Room.rating their
\* mean rounded to one decimal place (0 without approved review): a review
\* that is rejected, set back to pending, or deleted stops being counted.
C21_StoredAggregate ==
  (\A p \in Procs : pc[p] = "idle") =>
    \A r \in ExistingRooms :
      LET n == Cardinality(ApprovedOf(r))
      IN  /\ ratings[r].totalReviews = n
          /\ n > 0 => 2 * Abs((n * ratings[r].rating) - (10 * StarSum(r))) <= n
          /\ n = 0 => ratings[r].rating = 0

\* C21 for the moderation and delete routes alone: a review that stops being
\* approved, or is deleted, leaves the Room's totalReviews in step
C21_StopsBeingCounted ==
  [][\A p \in Procs :
       (/\ Responded(p)
        /\ last'.kind = "ok"
        /\ \/ last'.req.op = "deleteReview"
           \/ /\ last'.req.op = "setReviewStatus"
              /\ last'.req.status \in {"pending", "rejected"}
        /\ IsReview(reviews[last'.req.id])
        /\ reviews[last'.req.id].status = "approved"
        /\ ratings[reviews[last'.req.id].room].totalReviews =
             Cardinality(MatchApproved(reviews, reviews[last'.req.id].room))) =>
          ratings'[reviews[last'.req.id].room].totalReviews =
            Cardinality(MatchApproved(reviews', reviews[last'.req.id].room))]_vars

\* C22: starting from Rooms with capacity >= 1, status available and
\* currentOccupancy < capacity, after any createBooking, deleteBooking,
\* adjustOccupancy and assignRoom calls (all of them answered) every Room has
\* status occupied exactly when currentOccupancy = capacity and status
\* available exactly when currentOccupancy < capacity.
C22_StatusFollowsOccupancy ==
  (\A p \in Procs : pc[p] = "idle") =>
    \A r \in ExistingRooms :
      /\ rooms[r].status = "occupied" <=>
           rooms[r].currentOccupancy = rooms[r].capacity
      /\ rooms[r].status = "available" <=>
           rooms[r].currentOccupancy < rooms[r].capacity

\* C22 in the states of SpecOneByOne, where no two requests overlap: a Room
\* that was filled and released again
C22_FilledAndReleased ==
  /\ calls = 2
  /\ last.kind = "ok"
  /\ last.req.op = "adjustOccupancy"
  /\ last.req.action = "decrease"
  /\ rooms[last.req.room].status = "available"
  /\ rooms[last.req.room].currentOccupancy = rooms[last.req.room].capacity - 1
  /\ rooms[last.req.room] = rooms0[last.req.room]

\* C23: a Booking persisted by a successful createBooking has status
\* confirmed whatever the request body carries, and a createBooking that
\* persists a checked-out or cancelled Booking leaves the occupancy of the
\* Room as it was.
C23_StartsConfirmed ==
  [][\A p \in Procs :
       (/\ pc[p] = "cb_commit"
        /\ Responded(p)
        /\ last'.kind = "ok") =>
          /\ bookings'[nextId] # Null
          /\ bookings'[nextId].status = "confirmed"
          /\ bookings'[nextId].status \in {"checked-out", "cancelled"} =>
               rooms'[last'.req.room].currentOccupancy =
                 rooms[last'.req.room].currentOccupancy]_vars

\* C23, second half alone: no slot is taken for a Booking that is persisted
\* checked-out or cancelled
C23_NoSlotForClosedBooking ==
  [][\A p \in Procs :
       (/\ pc[p] = "cb_commit"
        /\ Responded(p)
        /\ last'.kind = "ok"
        /\ bookings'[nextId] # Null
        /\ bookings'[nextId].status \in {"checked-out", "cancelled"}) =>
          rooms'[last'.req.room].currentOccupancy =
            rooms[last'.req.room].currentOccupancy]_vars

====
